---- MODULE Spec2Model ----
(***************************************************************************)
(* Model of src/mcp/server.py: the restricted arithmetic evaluator (calc,  *)
(* _eval), the process runner (_run, run_maven, maven_test) and the JaCoCo *)
(* report aggregation (maven_test_and_report, uncovered_classes).          *)
(*                                                                         *)
(* Numbers: Python numbers produced by the evaluator are modelled as exact *)
(* rationals <<n, d>> (d > 0, lowest terms).  Percentages are modelled in  *)
(* hundredths of a percent (8000 is 80.0), which is what round(x, 2)       *)
(* yields.                                                                 *)
(***************************************************************************)
EXTENDS Integers, Sequences, FiniteSets, TLC

VARIABLES
    codebase,      \* the jacoco.xml document the build writes for the project under test
    reportExists,  \* whether codebase/target/site/jacoco/jacoco.xml exists on disk
    op,            \* the operation that ran last ("none" before any)
    arg,           \* the input of that operation
    ret            \* its outcome: [exc |-> exception kind or "", val |-> returned value, ...]

vars == <<codebase, reportExists, op, arg, ret>>

----------------------------------------------------------------------------
(* Bounds *)

MaxNodes == 5      \* nodes of an expression tree

----------------------------------------------------------------------------
(* Expression trees as ast.parse(expression, mode="eval").body yields them *)

NumLits == {0, 1}
UnaryOps == {"USub", "UAdd"}
BinOps == {"Add", "Sub", "Mult", "Div", "Pow", "Mod"}

Num(n) == [kind |-> "Num", op |-> "", n |-> n, kids |-> <<>>]
Name == [kind |-> "Name", op |-> "", n |-> 0, kids |-> <<>>]
UnaryOp(o, operand) == [kind |-> "UnaryOp", op |-> o, n |-> 0, kids |-> <<operand>>]
BinOp(o, left, right) == [kind |-> "BinOp", op |-> o, n |-> 0, kids |-> <<left, right>>]
BoolOp(left, right) == [kind |-> "BoolOp", op |-> "And", n |-> 0, kids |-> <<left, right>>]

RECURSIVE TreesOfSize(_)
TreesOfSize(k) ==
    IF k = 1 THEN {Num(n) : n \in NumLits} \cup {Name}
    ELSE {UnaryOp(o, t) : o \in UnaryOps, t \in TreesOfSize(k - 1)}
         \cup UNION {
                ({BinOp(o, l, r) : o \in BinOps, l \in TreesOfSize(j), r \in TreesOfSize(k - 1 - j)}
                 \cup {BoolOp(l, r) : l \in TreesOfSize(j), r \in TreesOfSize(k - 1 - j)})
                : j \in 1 .. (k - 2)}

\* the trees of at most n nodes
Exprs(n) == UNION {TreesOfSize(k) : k \in 1 .. n}

----------------------------------------------------------------------------
(* Exact rational arithmetic standing for Python's int/float arithmetic *)

Abs(x) == IF x < 0 THEN -x ELSE x

RECURSIVE Gcd(_, _)
Gcd(a, b) == IF b = 0 THEN a ELSE Gcd(b, a % b)

Rat(n, d) ==
    LET g == Gcd(Abs(n), Abs(d))
        s == IF d < 0 THEN -1 ELSE 1
    IN  <<(s * n) \div g, (s * d) \div g>>

IsInt(q) == q[2] = 1

RECURSIVE RatPowNat(_, _)
RatPowNat(q, e) == IF e = 0 THEN <<1, 1>>
                   ELSE LET r == RatPowNat(q, e - 1) IN Rat(q[1] * r[1], q[2] * r[2])

Ok(v) == [exc |-> "", val |-> v, applied |-> 1]
Fault(e) == [exc |-> e, val |-> <<0, 1>>, applied |-> 0]

\* operator.pow on two real numbers
op_pow(a, b) ==
    IF IsInt(b)
    THEN IF b[1] >= 0 THEN Ok(RatPowNat(a, b[1]))
         ELSE IF a[1] = 0 THEN Fault("ZeroDivisionError")
         ELSE Ok(RatPowNat(Rat(a[2], a[1]), -b[1]))
    ELSE IF a[1] = 0
         THEN (IF b[1] > 0 THEN Ok(<<0, 1>>) ELSE Fault("ZeroDivisionError"))
         ELSE IF a = <<1, 1>> THEN Ok(<<1, 1>>)
         ELSE Fault("InexactPower")   \* irrational or complex result: not representable here

\* the functions of module operator that _ALLOWED maps to, applied to evaluated operands
op_call(f, args) ==
    CASE f = "add" -> Ok(Rat(args[1][1] * args[2][2] + args[2][1] * args[1][2], args[1][2] * args[2][2]))
      [] f = "sub" -> Ok(Rat(args[1][1] * args[2][2] - args[2][1] * args[1][2], args[1][2] * args[2][2]))
      [] f = "mul" -> Ok(Rat(args[1][1] * args[2][1], args[1][2] * args[2][2]))
      [] f = "truediv" -> IF args[2][1] = 0 THEN Fault("ZeroDivisionError")
                          ELSE Ok(Rat(args[1][1] * args[2][2], args[1][2] * args[2][1]))
      [] f = "pow" -> op_pow(args[1], args[2])
      [] f = "neg" -> Ok(<<-args[1][1], args[1][2]>>)

_ALLOWED == [Add |-> "add", Sub |-> "sub", Mult |-> "mul", Div |-> "truediv",
             Pow |-> "pow", USub |-> "neg"]

\* _eval(node).  applied counts the calls of an operator function made before
\* the evaluation returned or raised.
RECURSIVE _eval(_)
_eval(node) ==
    IF node.kind = "Num" THEN [exc |-> "", val |-> <<node.n, 1>>, applied |-> 0]
    ELSE IF node.kind = "UnaryOp" THEN
        IF node.op \notin DOMAIN _ALLOWED THEN Fault("KeyError")
        ELSE LET x == _eval(node.kids[1]) IN
             IF x.exc # "" THEN x
             ELSE LET r == op_call(_ALLOWED[node.op], <<x.val>>)
                  IN  [r EXCEPT !.applied = x.applied + r.applied]
    ELSE IF node.kind = "BinOp" THEN
        IF node.op \notin DOMAIN _ALLOWED THEN Fault("KeyError")
        ELSE LET x == _eval(node.kids[1]) IN
             IF x.exc # "" THEN x
             ELSE LET y == _eval(node.kids[2]) IN
                  IF y.exc # "" THEN [y EXCEPT !.applied = x.applied + y.applied]
                  ELSE LET r == op_call(_ALLOWED[node.op], <<x.val, y.val>>)
                       IN  [r EXCEPT !.applied = x.applied + y.applied + r.applied]
    ELSE Fault("ValueError")

\* calc(expression): float(_eval(tree.body)); float() of a real number never raises
calc(tree) == _eval(tree)


----------------------------------------------------------------------------
(* The JaCoCo report: an XML element tree.  Attribute values are text, as  *)
(* ElementTree yields them: a sequence of characters.                      *)

Digit == <<"0", "1", "2", "3", "4", "5", "6", "7", "8", "9">>

\* str(n) for a natural number
RECURSIVE Str(_)
Str(n) == IF n < 10 THEN <<Digit[n + 1]>> ELSE Str(n \div 10) \o <<Digit[(n % 10) + 1]>>

DigitVal(ch) == CHOOSE v \in 0 .. 9 : Digit[v + 1] = ch

\* int(text) for a text of decimal digits
RECURSIVE int(_)
int(text) == IF Len(text) = 0 THEN 0
             ELSE 10 * int(SubSeq(text, 1, Len(text) - 1)) + DigitVal(text[Len(text)])

Element(t, nm, ty, c, m, ks) ==
    [tag |-> t, name |-> nm, type |-> ty, covered |-> c, missed |-> m, kids |-> ks]

Counter(ty, c, m) == Element("counter", <<>>, ty, Str(c), Str(m), <<>>)
Method(counters) == Element("method", <<"m">>, "", <<>>, <<>>, counters)
\* a class element: its method element (with the method's counters) comes first,
\* the counters of the class itself follow, as JaCoCo writes them
Class(nm, nested, direct) ==
    Element("class", nm, "", <<>>, <<>>,
            (IF nested = <<>> THEN <<>> ELSE <<Method(nested)>>) \o direct)
Package(classes) == Element("package", <<"p">>, "", <<>>, <<>>, classes)
Report(classes, outer) ==
    Element("report", <<"r">>, "", <<>>, <<>>, <<Package(classes)>> \o outer)

\* All descendants of an element in document order
RECURSIVE Flatten(_)
RECURSIVE Descendants(_)
Flatten(elems) == IF elems = <<>> THEN <<>>
                  ELSE <<Head(elems)>> \o Descendants(Head(elems)) \o Flatten(Tail(elems))
Descendants(e) == Flatten(e.kids)

\* Mutant: the path "./tag", which finds direct children only
iterfind_children(e, tag) == SelectSeq(e.kids, LAMBDA x : x.tag = tag)

\* list(e.iterfind(".//" + tag))
iterfind(e, tag) == SelectSeq(Descendants(e), LAMBDA x : x.tag = tag)

\* round(100.0 * cov / (cov + miss), 2) in hundredths, for cov + miss > 0.
\* Python rounds the correctly rounded quotient half to even; a tie needs
\* cov + miss to be a multiple of 32.
round2(cov, tot) ==
    LET q == (10000 * cov) \div tot
        r == (10000 * cov) % tot
    IN  IF 2 * r < tot THEN q
        ELSE IF 2 * r > tot THEN q + 1
        ELSE IF q % 2 = 0 THEN q ELSE q + 1

\* Mutant: the division without its guard
percent_unguarded(cov, miss) ==
    IF cov + miss # 0 THEN [fault |-> FALSE, val |-> round2(cov, cov + miss)]
    ELSE [fault |-> TRUE, val |-> 0]

\* the expression  round(100.0 * cov / (cov + miss), 2) if cov + miss else 0.0
\* fault is TRUE when evaluating it divides by zero
percent(cov, miss) ==
    IF cov + miss # 0 THEN [fault |-> FALSE, val |-> round2(cov, cov + miss)]
    ELSE [fault |-> FALSE, val |-> 0]

----------------------------------------------------------------------------
(* maven_test_and_report *)

ZeroCounters == [t \in {"LINE", "BRANCH"} |-> [covered |-> 0, missed |-> 0]]

\* the loop  for c in tree.iterfind(".//counter")
RECURSIVE SumCounters(_, _)
SumCounters(cs, counters) ==
    IF cs = <<>> THEN counters
    ELSE LET c == Head(cs)
             t == c.type
         IN  SumCounters(Tail(cs),
                 IF t \in DOMAIN counters
                 THEN [counters EXCEPT ![t] = [covered |-> @.covered + int(c.covered),
                                               missed  |-> @.missed + int(c.missed)]]
                 ELSE counters)

pct(counters, kind) == percent(counters[kind].covered, counters[kind].missed)

SummaryKeys == {"line_coverage_pct", "branch_coverage_pct"}

\* proc is the completed build process; exists is whether the report is on
\* disk once the build has ended
maven_test_and_report(proc, exists, doc) ==
    IF ~proc.launched THEN [exc |-> "FileNotFoundError", returncode |-> 0, summary |-> << >>]
    ELSE IF exists THEN
        LET counters == SumCounters(iterfind(doc, "counter"), ZeroCounters)
            l == pct(counters, "LINE")
            b == pct(counters, "BRANCH")
        IN  IF l.fault \/ b.fault
            THEN [exc |-> "ZeroDivisionError", returncode |-> 0, summary |-> << >>]
            ELSE [exc |-> "", returncode |-> proc.returncode,
                  summary |-> [k \in SummaryKeys |->
                                 IF k = "line_coverage_pct" THEN l.val ELSE b.val]]
    ELSE [exc |-> "", returncode |-> proc.returncode, summary |-> << >>]

----------------------------------------------------------------------------
(* uncovered_classes *)

\* name.replace("/", ".")
replace(nm) == [i \in 1 .. Len(nm) |-> IF nm[i] = "/" THEN "." ELSE nm[i]]

\* Mutant: a class without LINE counter counts as fully covered
RECURSIVE first_line_cov_full(_)
first_line_cov_full(cs) ==
    IF cs = <<>> THEN [fault |-> FALSE, val |-> 10000]
    ELSE IF Head(cs).type = "LINE"
         THEN percent(int(Head(cs).covered), int(Head(cs).missed))
         ELSE first_line_cov_full(Tail(cs))

\* the inner loop  for c in cls.iterfind(".//counter"): the percentage of the
\* first counter of type LINE, 0.0 when there is none
RECURSIVE first_line_cov(_)
first_line_cov(cs) ==
    IF cs = <<>> THEN [fault |-> FALSE, val |-> 0]
    ELSE IF Head(cs).type = "LINE"
         THEN percent(int(Head(cs).covered), int(Head(cs).missed))
         ELSE first_line_cov(Tail(cs))

line_cov(cls) == first_line_cov(iterfind(cls, "counter"))

\* Mutant: the comparison line_cov <= threshold
RECURSIVE low_classes_le(_, _, _)
low_classes_le(classes, threshold, low) ==
    IF classes = <<>> THEN [exc |-> "", val |-> low]
    ELSE LET cls == Head(classes)
             lc == line_cov(cls)
         IN  IF lc.fault THEN [exc |-> "ZeroDivisionError", val |-> << >>]
             ELSE low_classes_le(Tail(classes), threshold,
                     IF lc.val <= threshold
                     THEN Append(low, [class |-> replace(cls.name), line_coverage_pct |-> lc.val])
                     ELSE low)

\* the outer loop  for cls in tree.iterfind(".//class")
RECURSIVE low_classes(_, _, _)
low_classes(classes, threshold, low) ==
    IF classes = <<>> THEN [exc |-> "", val |-> low]
    ELSE LET cls == Head(classes)
             lc == line_cov(cls)
         IN  IF lc.fault THEN [exc |-> "ZeroDivisionError", val |-> << >>]
             ELSE low_classes(Tail(classes), threshold,
                     IF lc.val < threshold
                     THEN Append(low, [class |-> replace(cls.name), line_coverage_pct |-> lc.val])
                     ELSE low)

\* Mutant: no check that the report exists; a missing report reads as empty
uncovered_classes_unchecked(exists, doc, threshold) ==
    IF ~exists THEN [exc |-> "", val |-> << >>]
    ELSE low_classes(iterfind(doc, "class"), threshold, << >>)

uncovered_classes(exists, doc, threshold) ==
    IF ~exists THEN [exc |-> "RuntimeError", val |-> << >>]
    ELSE low_classes(iterfind(doc, "class"), threshold, << >>)

----------------------------------------------------------------------------
(* Process runner and Maven wrappers *)

PROJECT_ROOT == "/project"
POM_PATH == "/project/codebase/pom.xml"
TailLen == 2000

\* " ".join(cmd)
RECURSIVE join(_)
join(cmd) == IF Len(cmd) <= 1 THEN cmd ELSE <<Head(cmd), " ">> \o join(Tail(cmd))

\* text[-TailLen:]
tail(text) == SubSeq(text, IF Len(text) > TailLen THEN Len(text) - TailLen + 1 ELSE 1, Len(text))

\* Mutant: subprocess.run(..., check=True), which raises on a nonzero exit code
_run_check(cmd, proc) ==
    IF ~proc.launched
    THEN [exc |-> "FileNotFoundError", command |-> <<>>, cwd |-> "", returncode |-> 0,
          stdout_tail |-> <<>>, stderr_tail |-> <<>>]
    ELSE IF proc.returncode # 0
    THEN [exc |-> "CalledProcessError", command |-> <<>>, cwd |-> "", returncode |-> 0,
          stdout_tail |-> <<>>, stderr_tail |-> <<>>]
    ELSE [exc |-> "", command |-> join(cmd), cwd |-> PROJECT_ROOT,
          returncode |-> proc.returncode,
          stdout_tail |-> tail(proc.stdout), stderr_tail |-> tail(proc.stderr)]

\* proc is the outcome of subprocess.run: launched is FALSE when the
\* executable could not be started, and then subprocess.run raises
_run(cmd, proc) ==
    IF ~proc.launched
    THEN [exc |-> "FileNotFoundError", command |-> <<>>, cwd |-> "", returncode |-> 0,
          stdout_tail |-> <<>>, stderr_tail |-> <<>>]
    ELSE [exc |-> "", command |-> join(cmd), cwd |-> PROJECT_ROOT,
          returncode |-> proc.returncode,
          stdout_tail |-> tail(proc.stdout), stderr_tail |-> tail(proc.stderr)]

\* An optional value is a set: {} is None, {x} is x.
\* which is the optional result of shutil.which("mvn")
run_maven(which, test_filter, goals, proc) ==
    LET mvn_path == IF which = {} THEN "mvn" ELSE CHOOSE w \in which : TRUE
        truthy == test_filter # {} /\ test_filter # {""}
        cmd == <<"cmd", "/c", mvn_path, "-f", POM_PATH>>
               \o (IF truthy THEN <<"-Dtest=", CHOOSE f \in test_filter : TRUE>> ELSE <<>>)
               \o <<goals>>
    IN  _run(cmd, proc)

maven_test(which, test_filter, proc) == run_maven(which, test_filter, "test", proc)

\* maven_test_tool(test_filter): maven_test(test_filter or None)
maven_test_tool(which, test_filter, proc) ==
    maven_test(which, IF test_filter = "" THEN {} ELSE {test_filter}, proc)

\* POST /maven/test: payload is optional, and so is its test_filter key
api_maven_test(which, payload, proc) ==
    LET body == IF payload = {} THEN << >> ELSE CHOOSE b \in payload : TRUE
        test_filter == IF "test_filter" \in DOMAIN body THEN {body.test_filter} ELSE {}
    IN  maven_test(which, test_filter, proc)

----------------------------------------------------------------------------
(* Inputs *)

MaxClasses == 2    \* class elements of a report
MaxCounters == 2   \* counter elements of a report

\* the counter elements a report is built from
Counters == {Counter("LINE", 0, 0), Counter("LINE", 1, 2), Counter("LINE", 4, 1),
             Counter("BRANCH", 0, 0), Counter("BRANCH", 1, 1), Counter("INSTRUCTION", 1, 1)}

\* the counters of one scope (a method, a class, the report), b being the
\* number of counters the report may still take
Scope(b) == IF b > 0 THEN {<< >>} \cup {<<c>> : c \in Counters} ELSE {<< >>}

Letter == <<"A", "B", "C", "D">>
ClassName(i) == IF i % 2 = 0 THEN <<"p", "/", "q", "/", Letter[i]>> ELSE <<"p", "/", Letter[i]>>

\* the lists of n classes, the first named ClassName(i), that hold at most b counters
RECURSIVE ClassSeqs(_, _, _)
ClassSeqs(i, n, b) ==
    IF n = 0 THEN {<< >>}
    ELSE UNION {UNION {{<<Class(ClassName(i), nested, direct)>> \o rest :
                            rest \in ClassSeqs(i + 1, n - 1, b - Len(nested) - Len(direct))}
                       : direct \in Scope(b - Len(nested))}
                : nested \in Scope(b)}

CountersIn(classes) == Len(SelectSeq(Flatten(classes), LAMBDA x : x.tag = "counter"))

Docs ==
    UNION {UNION {{Report(classes, outer) : outer \in Scope(MaxCounters - CountersIn(classes))}
                  : classes \in ClassSeqs(1, n, MaxCounters)}
           : n \in 0 .. MaxClasses}

\* thresholds, in hundredths of a percent
Thresholds == {-1, 0, 3333, 8000}

Procs == {[launched |-> FALSE, returncode |-> 0, stdout |-> <<>>, stderr |-> <<>>],
          [launched |-> TRUE, returncode |-> 0, stdout |-> <<"o", "k">>, stderr |-> <<>>],
          [launched |-> TRUE, returncode |-> 1, stdout |-> <<>>, stderr |-> <<"e">>]}

Which == {{"/opt/maven/bin/mvn"}}
Filters == {"", "MyTest"}
Payloads == {{}, {[test_filter |-> "MyTest"]}}

----------------------------------------------------------------------------
(* The server: Init picks the project under test and the state of the disk. *)
(* Requests are handled one at a time to completion: op is "none" while    *)
(* the server is idle, and the data of a request is dropped once answered. *)

Init ==
    /\ codebase \in Docs
    /\ reportExists \in BOOLEAN
    /\ op = "none"
    /\ arg = << >>
    /\ ret = << >>

MavenTestTool ==
    \E w \in Which, f \in Filters, proc \in Procs :
        /\ op = "none"
        /\ op' = "maven_test_tool"
        /\ arg' = [test_filter |-> f, proc |-> proc]
        /\ ret' = maven_test_tool(w, f, proc)
        /\ UNCHANGED <<codebase, reportExists>>

ApiMavenTest ==
    \E w \in Which, payload \in Payloads, proc \in Procs :
        /\ op = "none"
        /\ op' = "api_maven_test"
        /\ arg' = [payload |-> payload, proc |-> proc]
        /\ ret' = api_maven_test(w, payload, proc)
        /\ UNCHANGED <<codebase, reportExists>>

\* The build runs inside the call: when it ends the report is on disk or not.
\* A build that was not started leaves the disk as it was.
MavenTestAndReport ==
    \E proc \in Procs, exists \in BOOLEAN :
        /\ op = "none"
        /\ proc.launched \/ exists = reportExists
        /\ reportExists' = exists
        /\ op' = "maven_test_and_report"
        /\ arg' = [proc |-> proc]
        /\ ret' = maven_test_and_report(proc, exists, codebase)
        /\ UNCHANGED codebase

UncoveredClasses ==
    \E threshold \in Thresholds :
        /\ op = "none"
        /\ op' = "uncovered_classes"
        /\ arg' = [threshold |-> threshold]
        /\ ret' = uncovered_classes(reportExists, codebase, threshold)
        /\ UNCHANGED <<codebase, reportExists>>

\* the response has been sent: the request's data is discarded
Respond ==
    /\ op # "none"
    /\ op' = "none"
    /\ arg' = << >>
    /\ ret' = << >>
    /\ UNCHANGED <<codebase, reportExists>>

Next == MavenTestTool \/ ApiMavenTest \/ MavenTestAndReport \/ UncoveredClasses \/ Respond

Spec == Init /\ [][Next]_vars

----------------------------------------------------------------------------
(* The evaluator as a pure function: Init draws the expression, Calc applies it *)

EmptyDoc == [tag |-> "report", name |-> <<>>, type |-> "", covered |-> 0, missed |-> 0, kids |-> <<>>]

InitCalc ==
    /\ codebase = EmptyDoc
    /\ reportExists = FALSE
    /\ op = "none"
    /\ arg \in Exprs(MaxNodes)
    /\ ret = [exc |-> "", val |-> <<0, 1>>, applied |-> 0]

Calc ==
    /\ op = "none"
    /\ op' = "calc"
    /\ ret' = calc(arg)
    /\ UNCHANGED <<codebase, reportExists, arg>>

NextCalc == Calc

SpecCalc == InitCalc /\ [][NextCalc]_vars

----------------------------------------------------------------------------
(* Claims about the evaluator *)

AllowList == {"Add", "Sub", "Mult", "Div", "Pow", "USub"}

RECURSIVE HasDisallowed(_)
HasDisallowed(node) ==
    \/ node.kind \notin {"Num", "UnaryOp", "BinOp"}
    \/ node.kind \in {"UnaryOp", "BinOp"} /\ node.op \notin AllowList
    \/ \E i \in 1 .. Len(node.kids) : HasDisallowed(node.kids[i])

\* C1: every expression whose tree contains a disallowed node kind or operator
\* makes calc fail with the UnsupportedExpression error (ValueError), never
\* with another error kind and never with a value.
C1_UnsupportedIsValueError ==
    (op = "calc" /\ HasDisallowed(arg)) => ret.exc = "ValueError"

\* C2: a tree containing a disallowed node or operator is rejected before
\* any operator is applied, and the outcome is UnsupportedExpression wherever
\* the disallowed node sits.
C2_RejectedBeforeEvaluation ==
    (op = "calc" /\ HasDisallowed(arg)) => (ret.exc = "ValueError" /\ ret.applied = 0)

\* Sanity: within MaxNodes every power has an exactly representable result.
PowerIsExact == ret.exc # "InexactPower"

----------------------------------------------------------------------------
(* Claims about the report aggregation and the build wrappers.  Their      *)
(* helpers read the report on their own, not through the operators above.  *)

ClassElems == SelectSeq(Descendants(codebase), LAMBDA x : x.tag = "class")

IsLine(x) == x.tag = "counter" /\ x.type = "LINE"

\* percentage in hundredths of a counter element, 0 for an empty one
PctOf(c) == LET cov == int(c.covered)
                tot == int(c.covered) + int(c.missed)
            IN  IF tot = 0 THEN 0 ELSE round2(cov, tot)

\* the first LINE counter among the direct children of a class
HasDirectLine(cls) == \E i \in 1 .. Len(cls.kids) : IsLine(cls.kids[i])
DirectPct(cls) ==
    LET i == CHOOSE k \in 1 .. Len(cls.kids) :
                 IsLine(cls.kids[k]) /\ \A j \in 1 .. (k - 1) : ~IsLine(cls.kids[j])
    IN  PctOf(cls.kids[i])

\* the first LINE counter anywhere under a class, in document order
LinesUnder(cls) == SelectSeq(Descendants(cls), IsLine)
ComputedPct(cls) == IF LinesUnder(cls) = << >> THEN 0 ELSE PctOf(Head(LinesUnder(cls)))

\* sum of an attribute over the counters of one type in a subtree
RECURSIVE SubtreeSum(_, _, _)
RECURSIVE KidsSum(_, _, _, _)
SubtreeSum(e, ty, attr) ==
    (IF e.tag = "counter" /\ e.type = ty
     THEN int(IF attr = "covered" THEN e.covered ELSE e.missed) ELSE 0)
    + KidsSum(e, ty, attr, Len(e.kids))
KidsSum(e, ty, attr, n) ==
    IF n = 0 THEN 0 ELSE SubtreeSum(e.kids[n], ty, attr) + KidsSum(e, ty, attr, n - 1)

Covered(ty) == SubtreeSum(codebase, ty, "covered")
Total(ty) == SubtreeSum(codebase, ty, "covered") + SubtreeSum(codebase, ty, "missed")

\* p is 100 * c / tot rounded to two decimals, in hundredths
IsRounded(p, c, tot) == 2 * Abs(p * tot - 10000 * c) <= tot

LowHas(nm, p) ==
    \E j \in 1 .. Len(ret.val) :
        ret.val[j] = [class |-> nm, line_coverage_pct |-> p]
LowNames == {ret.val[j].class : j \in 1 .. Len(ret.val)}

Listed == op = "uncovered_classes" /\ reportExists
Summarized == op = "maven_test_and_report" /\ arg.proc.launched /\ reportExists

\* C3: for every class element, the percentage uncovered_classes uses comes
\* from the first LINE counter that is a direct child of the class, never
\* from a counter nested deeper, even when that one comes first in the document.
C3_DirectChildCounter ==
    Listed =>
        LET cs == ClassElems IN
        \A i \in 1 .. Len(cs) :
            HasDirectLine(cs[i]) =>
                LET p == DirectPct(cs[i]) IN
                (p < arg.threshold) <=> LowHas(replace(cs[i].name), p)

\* C4: when the report does not exist after the build has run,
\* maven_test_and_report raises nothing and returns the exit code with a
\* summary whose line_coverage_pct and branch_coverage_pct are 0.0.
C4_MissingReportZeroSummary ==
    (op = "maven_test_and_report" /\ arg.proc.launched /\ ~reportExists) =>
        /\ ret.exc = ""
        /\ ret.returncode = arg.proc.returncode
        /\ DOMAIN ret.summary = SummaryKeys
        /\ \A k \in SummaryKeys : ret.summary[k] = 0

\* C5: the result of uncovered_classes is exactly the document-order
\* subsequence of the class elements whose percentage is strictly below the
\* threshold: none at the threshold, none below it missing, order kept.
C5_StrictSubsequence ==
    Listed =>
        LET cs == ClassElems
            rec == [i \in 1 .. Len(cs) |->
                      [class |-> replace(cs[i].name), line_coverage_pct |-> ComputedPct(cs[i])]]
        IN
        /\ ret.exc = ""
        /\ Len(ret.val) <= Len(cs)
        /\ \E f \in [1 .. Len(ret.val) -> 1 .. Len(cs)] :
            /\ \A j, k \in 1 .. Len(ret.val) : j < k => f[j] < f[k]
            /\ \A j \in 1 .. Len(ret.val) : ret.val[j] = rec[f[j]]
            /\ \A i \in 1 .. Len(cs) :
                (rec[i].line_coverage_pct < arg.threshold)
                    <=> (\E j \in 1 .. Len(ret.val) : f[j] = i)

C5_Witness ==
    /\ Listed
    /\ arg.threshold = 3333
    /\ Len(ClassElems) = 2
    /\ ComputedPct(ClassElems[1]) = 3333
    /\ LinesUnder(ClassElems[2]) # << >>
    /\ Len(ret.val) = 1
    /\ ret.val[1].class = <<"p", ".", "q", ".", "B">>

\* C6: for a report that exists, each percentage of the summary is
\* 100 * C / (C + M) rounded to two decimals, C and M being the sums of
\* covered and missed over all counters of that type at any depth; no other
\* type contributes, and LINE and BRANCH do not mix.
C6_SummaryOverAllCounters ==
    Summarized =>
        LET lt == Total("LINE")
            bt == Total("BRANCH")
        IN
        /\ ret.exc = ""
        /\ DOMAIN ret.summary = SummaryKeys
        /\ lt > 0 => IsRounded(ret.summary["line_coverage_pct"], Covered("LINE"), lt)
        /\ bt > 0 => IsRounded(ret.summary["branch_coverage_pct"], Covered("BRANCH"), bt)

\* a LINE counter inside a method and another directly under the report
C6_Witness ==
    /\ Summarized
    /\ \E i \in 1 .. Len(ClassElems) :
          \E k \in 1 .. Len(ClassElems[i].kids) :
              /\ ClassElems[i].kids[k].tag = "method"
              /\ \E n \in 1 .. Len(ClassElems[i].kids[k].kids) : IsLine(ClassElems[i].kids[k].kids[n])
    /\ \E k \in 1 .. Len(codebase.kids) : IsLine(codebase.kids[k])
    /\ Covered("LINE") = 2
    /\ Total("LINE") = 6
    /\ ret.summary["line_coverage_pct"] = 3333

\* C7: a nonzero exit code of the build is never raised: for every exit
\* code maven_test_tool, POST /maven/test and maven_test_and_report return
\* normally with returncode equal to the exit code of the command run.
C7_ExitCodeReturned ==
    (op \in {"maven_test_tool", "api_maven_test", "maven_test_and_report"}
        /\ arg.proc.launched) =>
        (ret.exc = "" /\ ret.returncode = arg.proc.returncode)

C7_Witness ==
    /\ op = "api_maven_test"
    /\ arg.proc.launched
    /\ arg.proc.returncode = 1
    /\ ret.exc = ""
    /\ ret.returncode = 1

\* C8: without a report uncovered_classes fails with ReportMissing (the
\* RuntimeError) for every threshold and returns no record; with a report it
\* never fails with ReportMissing.
C8_ReportMissing ==
    op = "uncovered_classes" =>
        /\ ~reportExists => (ret.exc = "RuntimeError" /\ ret.val = << >>)
        /\ reportExists => ret.exc # "RuntimeError"

C8_Witness ==
    /\ op = "uncovered_classes"
    /\ ~reportExists
    /\ Len(ClassElems) > 0
    /\ arg.threshold = 8000
    /\ ret.exc = "RuntimeError"

\* C9: whenever covered + missed sums to 0 for a counter kind, that kind's
\* percentage is 0.0 and no division by zero occurs, for both kinds of the
\* summary independently and for the per-class percentage.
C9_ZeroDenominator ==
    /\ Summarized =>
        /\ ret.exc = ""
        /\ Total("LINE") = 0 => ret.summary["line_coverage_pct"] = 0
        /\ Total("BRANCH") = 0 => ret.summary["branch_coverage_pct"] = 0
    /\ Listed =>
        LET cs == ClassElems IN
        /\ ret.exc = ""
        /\ \A i \in 1 .. Len(cs) :
            LET ls == LinesUnder(cs[i]) IN
            (arg.threshold > 0 /\ ls # << >>
                /\ int(Head(ls).covered) + int(Head(ls).missed) = 0)
                => LowHas(replace(cs[i].name), 0)

\* LINE counters are present and sum to 0 while BRANCH does not
C9_Witness ==
    /\ Summarized
    /\ \E i \in 1 .. Len(Descendants(codebase)) : IsLine(Descendants(codebase)[i])
    /\ Total("LINE") = 0
    /\ Total("BRANCH") > 0
    /\ ret.summary["line_coverage_pct"] = 0
    /\ ret.summary["branch_coverage_pct"] = 5000

\* C10: a class element with no LINE counter at all has 0.0 percent line
\* coverage: it is in the result, with 0.0, for every threshold above 0 and
\* left out when the threshold is 0 or less.
C10_NoLineCounter ==
    Listed =>
        LET cs == ClassElems IN
        \A i \in 1 .. Len(cs) :
            LinesUnder(cs[i]) = << >> =>
                /\ arg.threshold > 0 => LowHas(replace(cs[i].name), 0)
                /\ arg.threshold <= 0 => replace(cs[i].name) \notin LowNames

C10_Witness ==
    /\ Listed
    /\ arg.threshold = 3333
    /\ \E i \in 1 .. Len(ClassElems) :
          /\ LinesUnder(ClassElems[i]) = << >>
          /\ Len(ClassElems[i].kids) > 0
          /\ LowHas(replace(ClassElems[i].name), 0)

====
